---------------------------- MODULE Spec2Model ----------------------------
(***************************************************************************)
(* Model of examples/viewer/DirectX/D3DUtil.h: the Util helpers            *)
(* (GetFormat, ResourceSize, AdjustBBox, CenterBBox, HSVtoRBG) and the DX  *)
(* helpers (com_exception, ThrowIfFailed, CompileShader).                  *)
(*                                                                         *)
(* A float is modelled as an exact dyadic rational [m, e] = m / 2^e, kept  *)
(* normalised (e = 0 or m odd), so that equal values are equal records.    *)
(* The values the model uses are finite numbers (no NaN, no infinity) and  *)
(* small enough that every operation on them is exact in binary32.         *)
(***************************************************************************)
EXTENDS Integers, Sequences, FiniteSets, TLC

VARIABLES
    call,        \* Util: the last call of a pure helper: its name, arguments, outcome
    bbox,        \* BBox: the accumulator passed as currentBBox
    bbox0,       \* BBox: the accumulator as it was constructed (history)
    merged,      \* BBox: the boxes merged into the accumulator so far, in order (history)
    bboxPrev,    \* BBox: the accumulator before the last operation (history)
    lastOp,      \* BBox: the last operation run on the accumulator
    lastOther,   \* BBox: the box passed as other to the last AdjustBBox, before and after (history)
    centered,    \* BBox: whether CenterBBox has run and Min or Max changed since; the box it left (history)
    mem,         \* DX: the character buffers, by address; "s_str" is what()'s static buffer
    excs,        \* DX: the com_exception objects thrown so far and still alive
    obtained,    \* DX: per exception object, what its what() calls returned (history)
    lastThrow,   \* DX: the last ThrowIfFailed call: its argument and whether it threw
    thr,         \* DX: two threads that each call what() on an object of their own
    comp,        \* DX: the CompileShader call in progress: position, locals, outcome
    log,         \* DX: the lines written to Logger, each with the call that wrote it
    ncompiles    \* DX: the number of CompileShader calls started

utilVars == <<call>>
bboxVars == <<bbox, bbox0, merged, bboxPrev, lastOp, lastOther, centered>>
errVars == <<excs, obtained, lastThrow>>
raceVars == <<thr>>
compVars == <<comp, log, ncompiles>>
vars ==
    <<call, bbox, bbox0, merged, bboxPrev, lastOp, lastOther, centered, mem, excs, obtained,
      lastThrow, thr, comp, log, ncompiles>>

-----------------------------------------------------------------------------
(* float *)

Pow2(n) == 2 ^ n

RECURSIVE Norm(_, _)
Norm(m, e) ==
    IF e > 0 /\ m % 2 = 0 THEN Norm(m \div 2, e - 1) ELSE [m |-> m, e |-> e]

\* The float with value n / 2^e.
Dy(n, e) == Norm(n, e)

\* An integer literal such as 6.0f.
Fl(n) == Dy(n, 0)

FScaled(a, E) == a.m * Pow2(E - a.e)

FMaxExp(a, b) == IF a.e < b.e THEN b.e ELSE a.e

FAdd(a, b) == Norm(FScaled(a, FMaxExp(a, b)) + FScaled(b, FMaxExp(a, b)), FMaxExp(a, b))

FNeg(a) == [m |-> 0 - a.m, e |-> a.e]

FSub(a, b) == FAdd(a, FNeg(b))

FMul(a, b) == Norm(a.m * b.m, a.e + b.e)

FLess(a, b) == FScaled(a, FMaxExp(a, b)) < FScaled(b, FMaxExp(a, b))

fabsf(a) == IF a.m < 0 THEN FNeg(a) ELSE a

\* std::min(a, b): b when b < a, else a.
std_min(a, b) == IF FLess(b, a) THEN b ELSE a

\* std::max(a, b): b when a < b, else a.
std_max(a, b) == IF FLess(a, b) THEN b ELSE a

\* std::clamp(v, lo, hi).
std_clamp(v, lo, hi) == IF FLess(v, lo) THEN lo ELSE IF FLess(hi, v) THEN hi ELSE v

-----------------------------------------------------------------------------
(* Util::GetFormat *)

\* fx::gltf::Accessor::Type
AccessorType == {"None", "Scalar", "Vec2", "Vec3", "Vec4", "Mat2", "Mat3", "Mat4"}

\* fx::gltf::Accessor::ComponentType
ComponentType ==
    {"None", "Byte", "UnsignedByte", "Short", "UnsignedShort", "UnsignedInt", "Float"}

Returned(v) == [threw |-> FALSE, value |-> v]

Thrown(what) == [threw |-> TRUE, what |-> what]

GetFormatDefaulting(type, componentType) ==
    IF type = "Vec3" /\ componentType = "Float"
    THEN Returned("DXGI_FORMAT_R32G32B32_FLOAT")
    ELSE IF type = "Scalar" /\ componentType = "UnsignedInt"
    THEN Returned("DXGI_FORMAT_R32_UINT")
    ELSE IF type = "Scalar"
    THEN Returned("DXGI_FORMAT_R16_UINT")
    ELSE Thrown("Unknown accessor types")

GetFormat(type, componentType) ==
    IF type = "Vec3" /\ componentType = "Float"
    THEN Returned("DXGI_FORMAT_R32G32B32_FLOAT")
    ELSE IF type = "Scalar" /\ componentType = "UnsignedInt"
    THEN Returned("DXGI_FORMAT_R32_UINT")
    ELSE IF type = "Scalar" /\ componentType = "UnsignedShort"
    THEN Returned("DXGI_FORMAT_R16_UINT")
    ELSE Thrown("Unknown accessor types")

-----------------------------------------------------------------------------
(* Util::ResourceSize *)

MinResourceSize == 64 * 1024

ResourceSizeRoundsDown(size) == IF size > MinResourceSize THEN MinResourceSize ELSE size

ResourceSize(size) == IF size < MinResourceSize THEN MinResourceSize ELSE size

-----------------------------------------------------------------------------
(* Util::HSVtoRBG *)

XMFLOAT4(x, y, z, w) == [x |-> x, y |-> y, z |-> z, w |-> w]

\* The three hue terms before the clamp (lines 78-80).
HueTerms(hue) ==
    XMFLOAT4(FSub(fabsf(FSub(FMul(hue, Fl(6)), Fl(3))), Fl(1)),
             FSub(Fl(2), fabsf(FSub(FMul(hue, Fl(6)), Fl(2)))),
             FSub(Fl(2), fabsf(FSub(FMul(hue, Fl(6)), Fl(4)))),
             Fl(0))

\* ((c - 1) * saturation + 1) * value (lines 86-88).
Shade(c, saturation, value) ==
    FMul(FAdd(FMul(FSub(c, Fl(1)), saturation), Fl(1)), value)

HSVtoRBGUnclamped(hue, saturation, value) ==
    XMFLOAT4(Shade(HueTerms(hue).x, saturation, value),
             Shade(HueTerms(hue).y, saturation, value),
             Shade(HueTerms(hue).z, saturation, value),
             Fl(1))

HSVtoRBG(hue, saturation, value) ==
    XMFLOAT4(Shade(std_clamp(HueTerms(hue).x, Fl(0), Fl(1)), saturation, value),
             Shade(std_clamp(HueTerms(hue).y, Fl(0), Fl(1)), saturation, value),
             Shade(std_clamp(HueTerms(hue).z, Fl(0), Fl(1)), saturation, value),
             Fl(1))

-----------------------------------------------------------------------------
(* The pure helpers, called on inputs drawn from bounded sets *)

\* Sizes are taken within SizeSpread of 0 and of the floor, and at 70000.
SizeSpread == 40

Sizes ==
    (0 .. SizeSpread)
        \cup ((MinResourceSize - SizeSpread) .. (MinResourceSize + SizeSpread))
        \cup {70000}

\* hue, saturation and value are taken on the grid k / 2^GridBits, from
\* GridOutside steps below 0 to GridOutside steps above 1.
GridBits == 3

GridOutside == 2

Grid == {Dy(k, GridBits) : k \in (0 - GridOutside) .. (Pow2(GridBits) + GridOutside)}

InUnit(f) == ~FLess(f, Fl(0)) /\ ~FLess(Fl(1), f)

\* A call that has not run yet.
Pending == [threw |-> FALSE, pending |-> TRUE]

NoCall == [fn |-> "none", out |-> Pending]

\* The calls to make, each with its arguments.
Calls ==
    {[fn |-> "GetFormat", type |-> type, componentType |-> componentType, out |-> Pending] :
        type \in AccessorType, componentType \in ComponentType}
    \cup {[fn |-> "ResourceSize", size |-> size, out |-> Pending] : size \in Sizes}
    \cup {[fn |-> "HSVtoRBG", hue |-> hue, saturation |-> saturation, value |-> value,
            out |-> Pending] : hue \in Grid, saturation \in Grid, value \in Grid}

InitUtil == call \in Calls

CallGetFormat ==
    /\ call.fn = "GetFormat" /\ call.out = Pending
    /\ call' = [call EXCEPT !.out = GetFormat(call.type, call.componentType)]
    /\ UNCHANGED <<bboxVars, mem, errVars, raceVars, compVars>>

CallResourceSize ==
    /\ call.fn = "ResourceSize" /\ call.out = Pending
    /\ call' = [call EXCEPT !.out = Returned(ResourceSize(call.size))]
    /\ UNCHANGED <<bboxVars, mem, errVars, raceVars, compVars>>

CallHSVtoRBG ==
    /\ call.fn = "HSVtoRBG" /\ call.out = Pending
    /\ call' = [call EXCEPT !.out = Returned(HSVtoRBG(call.hue, call.saturation, call.value))]
    /\ UNCHANGED <<bboxVars, mem, errVars, raceVars, compVars>>

NextUtil == CallGetFormat \/ CallResourceSize \/ CallHSVtoRBG

-----------------------------------------------------------------------------
(* Util::BBox, Util::AdjustBBox, Util::CenterBBox *)

XMFLOAT3(x, y, z) == [x |-> x, y |-> y, z |-> z]

\* struct BBox, its three members value-initialised.
BBox(Min, Max) == [Min |-> Min, Max |-> Max, CenterTranslation |-> XMFLOAT3(Fl(0), Fl(0), Fl(0))]

AdjustBBoxAtCopyPaste(heap, cur, oth) ==
    LET h1 == [heap EXCEPT ![cur].Min.x = std_min(heap[cur].Min.x, heap[oth].Min.x)]
        h2 == [h1 EXCEPT ![cur].Min.y = std_min(h1[cur].Min.y, h1[oth].Min.y)]
        h3 == [h2 EXCEPT ![cur].Min.z = std_min(h2[cur].Min.z, h2[oth].Min.z)]
        h4 == [h3 EXCEPT ![cur].Max.x = std_max(h3[cur].Max.x, h3[oth].Max.x)]
        h5 == [h4 EXCEPT ![cur].Max.y = std_max(h4[cur].Max.y, h4[oth].Max.y)]
    IN  [h5 EXCEPT ![cur].Max.z = std_max(h5[cur].Max.y, h5[oth].Max.z)]

AdjustBBoxAtRecenters(heap, cur, oth) ==
    LET h1 == [heap EXCEPT ![cur].Min.x = std_min(heap[cur].Min.x, heap[oth].Min.x)]
        h2 == [h1 EXCEPT ![cur].Min.y = std_min(h1[cur].Min.y, h1[oth].Min.y)]
        h3 == [h2 EXCEPT ![cur].Min.z = std_min(h2[cur].Min.z, h2[oth].Min.z)]
        h4 == [h3 EXCEPT ![cur].Max.x = std_max(h3[cur].Max.x, h3[oth].Max.x)]
        h5 == [h4 EXCEPT ![cur].Max.y = std_max(h4[cur].Max.y, h4[oth].Max.y)]
        h6 == [h5 EXCEPT ![cur].Max.z = std_max(h5[cur].Max.z, h5[oth].Max.z)]
    IN  [h6 EXCEPT ![cur].CenterTranslation =
            [x |-> FNeg(FMul(Dy(1, 1), FAdd(h6[cur].Min.x, h6[cur].Max.x))),
             y |-> FNeg(FMul(Dy(1, 1), FAdd(h6[cur].Min.y, h6[cur].Max.y))),
             z |-> FNeg(FMul(Dy(1, 1), FAdd(h6[cur].Min.z, h6[cur].Max.z)))]]

\* AdjustBBox on a heap of boxes: cur and oth are the addresses bound to
\* currentBBox and other, which may be the same object. The six assignments
\* run in the order of the code, each reading the heap the previous one left.
AdjustBBoxAt(heap, cur, oth) ==
    LET h1 == [heap EXCEPT ![cur].Min.x = std_min(heap[cur].Min.x, heap[oth].Min.x)]
        h2 == [h1 EXCEPT ![cur].Min.y = std_min(h1[cur].Min.y, h1[oth].Min.y)]
        h3 == [h2 EXCEPT ![cur].Min.z = std_min(h2[cur].Min.z, h2[oth].Min.z)]
        h4 == [h3 EXCEPT ![cur].Max.x = std_max(h3[cur].Max.x, h3[oth].Max.x)]
        h5 == [h4 EXCEPT ![cur].Max.y = std_max(h4[cur].Max.y, h4[oth].Max.y)]
    IN  [h5 EXCEPT ![cur].Max.z = std_max(h5[cur].Max.z, h5[oth].Max.z)]

\* AdjustBBox(currentBBox, other) on two distinct boxes: currentBBox as it is left.
AdjustBBox(currentBBox, other) ==
    AdjustBBoxAt([acc |-> currentBBox, other |-> other], "acc", "other").acc

\* DirectXMath: an XMVECTOR is four floats; XMLoadFloat3 clears the fourth.
XMLoadFloat3(f) == <<f.x, f.y, f.z, Fl(0)>>

XMStoreFloat3(v) == XMFLOAT3(v[1], v[2], v[3])

XMVectorAdd(a, b) == [i \in 1 .. 4 |-> FAdd(a[i], b[i])]

XMVectorScale(s, v) == [i \in 1 .. 4 |-> FMul(s, v[i])]

XMVectorNegate(v) == [i \in 1 .. 4 |-> FNeg(v[i])]

CenterBBoxNoNegate(currentBBox) ==
    LET min == XMLoadFloat3(currentBBox.Min)
        max == XMLoadFloat3(currentBBox.Max)
        mid == XMVectorScale(Dy(1, 1), XMVectorAdd(min, max))
    IN  [currentBBox EXCEPT !.CenterTranslation = XMStoreFloat3(mid)]

CenterBBox(currentBBox) ==
    LET min == XMLoadFloat3(currentBBox.Min)
        max == XMLoadFloat3(currentBBox.Max)
        mid == XMVectorNegate(XMVectorScale(Dy(1, 1), XMVectorAdd(min, max)))
    IN  [currentBBox EXCEPT !.CenterTranslation = XMStoreFloat3(mid)]

\* The boxes of the model: the value-initialised box BBox{}, and the boxes
\* built from corners that hold the box of the centering example and corners
\* with half-integer coordinates, none of which dominates on every axis.
MinCorners ==
    {XMFLOAT3(Fl(0 - 1), Fl(0 - 2), Fl(0 - 3)),
     XMFLOAT3(Fl(0), Fl(0), Fl(0)),
     XMFLOAT3(Dy(0 - 5, 1), Fl(1), Fl(0 - 1))}

MaxCorners ==
    {XMFLOAT3(Fl(3), Fl(4), Fl(5)),
     XMFLOAT3(Dy(9, 1), Fl(2), Fl(3))}

ZeroBox == BBox(XMFLOAT3(Fl(0), Fl(0), Fl(0)), XMFLOAT3(Fl(0), Fl(0), Fl(0)))

BoxSet == {BBox(lo, hi) : lo \in MinCorners, hi \in MaxCorners} \cup {ZeroBox}

\* At most MaxMerges boxes are merged into one accumulator.
MaxMerges == 3

InitBBox ==
    /\ bbox0 \in BoxSet
    /\ bbox = bbox0
    /\ merged = <<>>
    /\ bboxPrev = bbox0
    /\ lastOp = "none"
    /\ lastOther = [before |-> bbox0, after |-> bbox0]
    /\ centered = [state |-> "never", at |-> bbox0]

\* centered after an AdjustBBox that took the accumulator from before to after.
SinceCenter(before, after) ==
    IF centered.state # "never" /\ (after.Min # before.Min \/ after.Max # before.Max)
    THEN [centered EXCEPT !.state = "changed"]
    ELSE centered

\* AdjustBBox(bbox, other), other a box of its own.
DoAdjustBBox ==
    \E other \in BoxSet :
        LET heap == AdjustBBoxAt([acc |-> bbox, other |-> other], "acc", "other") IN
        /\ Len(merged) < MaxMerges
        /\ bbox' = heap.acc
        /\ merged' = Append(merged, other)
        /\ bboxPrev' = bbox
        /\ lastOp' = "AdjustBBox"
        /\ lastOther' = [before |-> other, after |-> heap.other]
        /\ centered' = SinceCenter(bbox, heap.acc)
        /\ UNCHANGED <<bbox0, utilVars, mem, errVars, raceVars, compVars>>

\* AdjustBBox(bbox, bbox): other is the accumulator itself.
DoAdjustBBoxSelf ==
    LET heap == AdjustBBoxAt([acc |-> bbox], "acc", "acc") IN
    /\ bbox' = heap.acc
    /\ bboxPrev' = bbox
    /\ lastOp' = "AdjustBBoxSelf"
    /\ lastOther' = [before |-> bbox, after |-> heap.acc]
    /\ centered' = SinceCenter(bbox, heap.acc)
    /\ UNCHANGED <<bbox0, merged, utilVars, mem, errVars, raceVars, compVars>>

DoCenterBBox ==
    /\ bbox' = CenterBBox(bbox)
    /\ bboxPrev' = bbox
    /\ lastOp' = "CenterBBox"
    /\ centered' = [state |-> "fresh", at |-> bbox']
    /\ UNCHANGED <<bbox0, merged, lastOther, utilVars, mem, errVars, raceVars, compVars>>

NextBBox == DoAdjustBBox \/ DoAdjustBBoxSelf \/ DoCenterBBox

-----------------------------------------------------------------------------------------------------------------------------------------------------
(* DX::com_exception, DX::ThrowIfFailed *)

\* An HRESULT is a signed 32-bit integer.
HRESULT_MIN == (0 - 2147483647) - 1

\* 0x80004005
E_FAIL == HRESULT_MIN + 16389

\* 0x8007000E
E_OUTOFMEMORY == HRESULT_MIN + 458766

\* Status codes within CodeSpread of 0 (S_OK is 0, S_FALSE is 1), the named
\* failure codes, and the least and the greatest HRESULT.
CodeSpread == 1

StatusCodes ==
    ((0 - CodeSpread) .. CodeSpread) \cup {E_FAIL, E_OUTOFMEMORY, HRESULT_MIN, 2147483647}

\* FAILED(hr): ((HRESULT)(hr)) < 0.
FAILED(hr) == hr < 0

\* The format string up to the conversion: "Failure with HRESULT of ".
FormatPrefix == <<"F", "a", "i", "l", "u", "r", "e", " ", "w", "i", "t", "h", " ", "H", "R", "E", "S", "U", "L", "T", " ", "o", "f", " ">>

UpperHexDigits == <<"0", "1", "2", "3", "4", "5", "6", "7", "8", "9", "A", "B", "C", "D", "E", "F">>

\* Hex digit k of the 32-bit two's complement pattern of hr, digit 0 the lowest.
Nibble(hr, k) == (hr \div (16 ^ k)) % 16

\* %X of a 32-bit value: its hexadecimal digits, upper case, none leading.
RECURSIVE HexDigitsFrom(_, _)
HexDigitsFrom(hr, k) ==
    IF k < 0 THEN <<>>
    ELSE <<UpperHexDigits[Nibble(hr, k) + 1]>> \o HexDigitsFrom(hr, k - 1)

RECURSIVE TopDigit(_, _)
TopDigit(hr, k) == IF k > 0 /\ Nibble(hr, k) = 0 THEN TopDigit(hr, k - 1) ELSE k

RECURSIVE Zeros(_)
Zeros(n) == IF n <= 0 THEN <<>> ELSE <<"0">> \o Zeros(n - 1)

\* %08X: %X padded with zeros on the left to a width of 8.
Format08X(hr) ==
    Zeros(8 - (TopDigit(hr, 7) + 1)) \o HexDigitsFrom(hr, TopDigit(hr, 7))

\* The text sprintf_s produces for "Failure with HRESULT of %08X".
FormatMessage(result) == FormatPrefix \o Format08X(result)

\* static char s_str[64] = {}
BufferSize == 64

NUL == "NUL"

ZeroBuffer == [i \in 1 .. BufferSize |-> NUL]

\* The C string a pointer to the start of buf reads: the characters before
\* the first NUL.
RECURSIVE CStringFrom(_, _)
CStringFrom(buf, i) ==
    IF i > BufferSize \/ buf[i] = NUL THEN <<>> ELSE <<buf[i]>> \o CStringFrom(buf, i + 1)

CString(buf) == CStringFrom(buf, 1)

\* sprintf_s(buf, ...) producing text: the characters and the terminator,
\* or an empty string when they do not fit.
sprintf_s(buf, text) ==
    IF Len(text) + 1 > BufferSize THEN [buf EXCEPT ![1] = NUL]
    ELSE [i \in 1 .. BufferSize |->
            IF i <= Len(text) THEN text[i] ELSE IF i = Len(text) + 1 THEN NUL ELSE buf[i]]

\* explicit com_exception(HRESULT hr): result(hr)
com_exception(hr) == [result |-> hr]

WhatBufferPerInstance(obj) == IF obj = 1 THEN "exc1" ELSE "exc2"

\* The buffer what() formats into and returns, for the object at index obj:
\* the function's static s_str, whatever the object.
WhatBuffer(obj) == "s_str"

ThrowIfFailedOnNonZero(hr) == IF hr # 0 THEN Thrown(com_exception(hr)) ELSE Returned("void")

ThrowIfFailed(hr) == IF FAILED(hr) THEN Thrown(com_exception(hr)) ELSE Returned("void")

\* At most MaxExceptions exception objects are alive, and what() is called at
\* most MaxWhatCalls times on each.
MaxExceptions == 2

MaxWhatCalls == 2

NeverCalled == [formatted |-> 0, ptr |-> "null", text |-> <<>>]

InitErr ==
    /\ mem = [a \in {"s_str"} |-> ZeroBuffer]
    /\ excs = <<>>
    /\ obtained = <<>>
    /\ lastThrow = [hr |-> 0, out |-> Pending, alive |-> 0]

\* com_exception(hr), constructed by a caller for any code.
DoConstruct ==
    \E hr \in StatusCodes :
        /\ Len(excs) < MaxExceptions
        /\ excs' = Append(excs, com_exception(hr))
        /\ obtained' = Append(obtained, NeverCalled)
        /\ lastThrow' = [hr |-> 0, out |-> Pending, alive |-> Len(excs')]
        /\ UNCHANGED <<mem, utilVars, bboxVars, raceVars, compVars>>

\* ThrowIfFailed(hr); a thrown object is caught and kept by the caller.
\* lastThrow.alive is the number of objects alive before the call.
DoThrowIfFailed ==
    \E hr \in StatusCodes :
        /\ Len(excs) < MaxExceptions
        /\ lastThrow' = [hr |-> hr, out |-> ThrowIfFailed(hr), alive |-> Len(excs)]
        /\ excs' = IF ThrowIfFailed(hr).threw THEN Append(excs, ThrowIfFailed(hr).what) ELSE excs
        /\ obtained' = IF ThrowIfFailed(hr).threw THEN Append(obtained, NeverCalled) ELSE obtained
        /\ UNCHANGED <<mem, utilVars, bboxVars, raceVars, compVars>>

\* excs[obj].what(), and the caller reading the text it returned.
DoWhat ==
    \E obj \in 1 .. Len(excs) :
        /\ obtained[obj].formatted < MaxWhatCalls
        /\ mem' = [mem EXCEPT ![WhatBuffer(obj)] = sprintf_s(@, FormatMessage(excs[obj].result))]
        /\ obtained' = [obtained EXCEPT ![obj] =
                            [formatted |-> @.formatted + 1, ptr |-> WhatBuffer(obj),
                             text |-> CString(mem'[WhatBuffer(obj)])]]
        /\ UNCHANGED <<excs, lastThrow, utilVars, bboxVars, raceVars, compVars>>

NextErr == DoConstruct \/ DoThrowIfFailed \/ DoWhat

-----------------------------------------------------------------------------------------------------------------------------------------------------
(* DX::com_exception::what called from two threads *)

\* Two threads, each holding a com_exception of its own. The calls race on
\* s_str: sprintf_s stores the characters one at a time, lowest address
\* first, and the caller reads the returned string one character at a time.
\* Each store and each load is one step, so a load returns what the latest
\* store to that character left, whichever thread made it.
Threads == {1, 2}

\* The codes of the two objects: named failure codes, which differ from one
\* another in two or three of their eight digits.
RaceCodes == {E_FAIL, E_OUTOFMEMORY, HRESULT_MIN}

Other(t) == CHOOSE u \in Threads : u # t

InitRace ==
    /\ mem = [a \in {"s_str"} |-> ZeroBuffer]
    /\ thr \in {[t \in Threads |->
                    [exc |-> com_exception(IF t = 1 THEN c1 ELSE c2), pc |-> "start",
                     buf |-> "null", at |-> 0, ptr |-> "null", text |-> <<>>]] :
                c1 \in RaceCodes, c2 \in RaceCodes}
    /\ thr[1].exc # thr[2].exc

\* The thread enters what(): s_str names the function's static buffer.
RaceWhatEnter(t) ==
    /\ thr[t].pc = "start"
    /\ thr' = [thr EXCEPT ![t].pc = "sprintf_s", ![t].buf = WhatBuffer(t), ![t].at = 1]
    /\ UNCHANGED <<mem, utilVars, bboxVars, errVars, compVars>>

\* sprintf_s stores its next character, the terminator last.
RaceWhatStore(t) ==
    LET text == FormatMessage(thr[t].exc.result) IN
    /\ thr[t].pc = "sprintf_s"
    /\ mem' = [mem EXCEPT ![thr[t].buf][thr[t].at] =
                    IF thr[t].at <= Len(text) THEN text[thr[t].at] ELSE NUL]
    /\ thr' = IF thr[t].at <= Len(text)
               THEN [thr EXCEPT ![t].at = @ + 1]
               ELSE [thr EXCEPT ![t].pc = "return"]
    /\ UNCHANGED <<utilVars, bboxVars, errVars, compVars>>

\* return s_str
RaceWhatReturn(t) ==
    /\ thr[t].pc = "return"
    /\ thr' = [thr EXCEPT ![t].pc = "read", ![t].ptr = thr[t].buf, ![t].at = 1]
    /\ UNCHANGED <<mem, utilVars, bboxVars, errVars, compVars>>

\* The caller loads the next character of the string it was returned.
RaceRead(t) ==
    /\ thr[t].pc = "read"
    /\ thr' = IF thr[t].at > BufferSize \/ mem[thr[t].ptr][thr[t].at] = NUL
               THEN [thr EXCEPT ![t].pc = "done"]
               ELSE [thr EXCEPT ![t].text = Append(@, mem[thr[t].ptr][thr[t].at]),
                                ![t].at = @ + 1]
    /\ UNCHANGED <<mem, utilVars, bboxVars, errVars, compVars>>

NextRace ==
    \E t \in Threads :
        RaceWhatEnter(t) \/ RaceWhatStore(t) \/ RaceWhatReturn(t) \/ RaceRead(t)

-----------------------------------------------------------------------------
(* DX::CompileShader *)

\* What D3DCompileFromFile can hand back: any status, with or without a
\* bytecode blob and with or without an error blob.
ByteCodes == {"nullptr", "bytecode"}

ErrorBlobs == {"nullptr", "warning X3206", "error X3000"}

\* At most MaxCompiles calls of CompileShader are made.
MaxCompiles == 2

\* One statement of CompileShader from position c.pc, on the locals c and the
\* log lg written so far by call n: the locals and the log it leaves.
CompileShaderSkipsLogOnFailure(c, lg, n) ==
    CASE c.pc = "errors"
            -> IF c.errors # "nullptr" /\ ~FAILED(c.hr)
               THEN [c |-> [c EXCEPT !.pc = "ThrowIfFailed"],
                     lg |-> Append(lg, [call |-> n, line |-> c.errors])]
               ELSE [c |-> [c EXCEPT !.pc = "ThrowIfFailed"], lg |-> lg]
      [] c.pc = "ThrowIfFailed"
            -> IF ThrowIfFailed(c.hr).threw
               THEN [c |-> [c EXCEPT !.pc = "raised", !.out = ThrowIfFailed(c.hr)], lg |-> lg]
               ELSE [c |-> [c EXCEPT !.pc = "return"], lg |-> lg]
      [] c.pc = "return"
            -> [c |-> [c EXCEPT !.pc = "returned", !.out = Returned(c.byteCode)], lg |-> lg]

CompileShaderStep(c, lg, n) ==
    CASE c.pc = "errors"
            -> IF c.errors # "nullptr"
               THEN [c |-> [c EXCEPT !.pc = "ThrowIfFailed"],
                     lg |-> Append(lg, [call |-> n, line |-> c.errors])]
               ELSE [c |-> [c EXCEPT !.pc = "ThrowIfFailed"], lg |-> lg]
      [] c.pc = "ThrowIfFailed"
            -> IF ThrowIfFailed(c.hr).threw
               THEN [c |-> [c EXCEPT !.pc = "raised", !.out = ThrowIfFailed(c.hr)], lg |-> lg]
               ELSE [c |-> [c EXCEPT !.pc = "return"], lg |-> lg]
      [] c.pc = "return"
            -> [c |-> [c EXCEPT !.pc = "returned", !.out = Returned(c.byteCode)], lg |-> lg]

InitComp ==
    /\ comp = [pc |-> "idle"]
    /\ log = <<>>
    /\ ncompiles = 0

\* CompileShader is entered and D3DCompileFromFile returns.
CompileCall ==
    \E hr \in StatusCodes, byteCode \in ByteCodes, errors \in ErrorBlobs :
        /\ comp.pc \in {"idle", "raised", "returned"}
        /\ ncompiles < MaxCompiles
        /\ ncompiles' = ncompiles + 1
        /\ comp' = [pc |-> "errors", hr |-> hr, byteCode |-> byteCode, errors |-> errors,
                     out |-> Pending]
        /\ UNCHANGED <<log, mem, utilVars, bboxVars, errVars, raceVars>>

\* if (errors != nullptr) Logger::WriteLine(...)
CompileLogErrors ==
    /\ comp.pc = "errors"
    /\ comp' = CompileShaderStep(comp, log, ncompiles).c
    /\ log' = CompileShaderStep(comp, log, ncompiles).lg
    /\ UNCHANGED <<ncompiles, mem, utilVars, bboxVars, errVars, raceVars>>

\* ThrowIfFailed(hr)
CompileThrowIfFailed ==
    /\ comp.pc = "ThrowIfFailed"
    /\ comp' = CompileShaderStep(comp, log, ncompiles).c
    /\ log' = CompileShaderStep(comp, log, ncompiles).lg
    /\ UNCHANGED <<ncompiles, mem, utilVars, bboxVars, errVars, raceVars>>

\* return byteCode
CompileReturn ==
    /\ comp.pc = "return"
    /\ comp' = CompileShaderStep(comp, log, ncompiles).c
    /\ log' = CompileShaderStep(comp, log, ncompiles).lg
    /\ UNCHANGED <<ncompiles, mem, utilVars, bboxVars, errVars, raceVars>>

NextComp == CompileCall \/ CompileLogErrors \/ CompileThrowIfFailed \/ CompileReturn

-----
(* Specifications *)

IdleUtil == call = NoCall

IdleBBox ==
    /\ bbox0 = ZeroBox
    /\ bbox = bbox0
    /\ merged = <<>>
    /\ bboxPrev = bbox0
    /\ lastOp = "none"
    /\ lastOther = [before |-> bbox0, after |-> bbox0]
    /\ centered = [state |-> "never", at |-> bbox0]

IdleRace == thr = <<>>

InitSpecUtil == InitUtil /\ IdleBBox /\ InitErr /\ IdleRace /\ InitComp

InitSpecBBox == InitBBox /\ IdleUtil /\ InitErr /\ IdleRace /\ InitComp

InitSpecErr == InitErr /\ IdleUtil /\ IdleBBox /\ IdleRace /\ InitComp

IdleErr ==
    excs = <<>> /\ obtained = <<>> /\ lastThrow = [hr |-> 0, out |-> Pending, alive |-> 0]

InitSpecRace == InitRace /\ IdleErr /\ IdleUtil /\ IdleBBox /\ InitComp

InitSpecComp == InitComp /\ InitErr /\ IdleUtil /\ IdleBBox /\ IdleRace

\* The pure helpers GetFormat, ResourceSize and HSVtoRBG.
SpecUtil == InitSpecUtil /\ [][NextUtil]_vars

\* One accumulator box under AdjustBBox and CenterBBox.
SpecBBox == InitSpecBBox /\ [][NextBBox]_vars

\* One thread throwing with ThrowIfFailed and calling what() on what it caught.
SpecErr == InitSpecErr /\ [][NextErr]_vars

\* Two threads calling what(), each on an exception object of its own.
SpecRace == InitSpecRace /\ [][NextRace]_vars

\* CompileShader, statement by statement.
SpecComp == InitSpecComp /\ [][NextComp]_vars

-----------------------------------------------------------------------------
(* Claims about the pure helpers, under SpecUtil *)

\* C1: for every (type, componentType) pair of the accessor enumerations,
\* GetFormat returns R32G32B32_FLOAT exactly for (Vec3, Float), R32_UINT
\* exactly for (Scalar, UnsignedInt), R16_UINT exactly for (Scalar,
\* UnsignedShort), and for every other pair it throws and returns no format.
C1_GetFormatTable ==
    (call.fn = "GetFormat" /\ call.out # Pending) =>
        LET supported ==
                {<<"Vec3", "Float">>, <<"Scalar", "UnsignedInt">>, <<"Scalar", "UnsignedShort">>}
        IN
        /\ (call.out = Returned("DXGI_FORMAT_R32G32B32_FLOAT"))
                <=> (call.type = "Vec3" /\ call.componentType = "Float")
        /\ (call.out = Returned("DXGI_FORMAT_R32_UINT"))
                <=> (call.type = "Scalar" /\ call.componentType = "UnsignedInt")
        /\ (call.out = Returned("DXGI_FORMAT_R16_UINT"))
                <=> (call.type = "Scalar" /\ call.componentType = "UnsignedShort")
        /\ (<<call.type, call.componentType>> \notin supported)
                <=> (call.out.threw /\ "value" \notin DOMAIN call.out)

\* C1's case: a pair one enumerator away from a supported one is refused.
C1_Witness ==
    /\ call.fn = "GetFormat"
    /\ call.type = "Scalar" /\ call.componentType = "Short"
    /\ call.out = Thrown("Unknown accessor types")

\* C2: for every size s >= 0, ResourceSize(s) = max(s, 65536): never below
\* s, never below 65536, equal to s when s >= 65536; it never throws.
C2_ResourceSizeIsMax ==
    (call.fn = "ResourceSize" /\ call.out # Pending) =>
        /\ ~call.out.threw
        /\ call.out.value >= call.size
        /\ call.out.value >= 65536
        /\ call.out.value \in {call.size, 65536}
        /\ (call.size >= 65536 => call.out.value = call.size)
        /\ (call.size = 0 => call.out.value = 65536)
        /\ (call.size = 65536 => call.out.value = 65536)
        /\ (call.size = 70000 => call.out.value = 70000)

\* C2's case: a size just under the floor is raised to the floor.
C2_Witness ==
    /\ call.fn = "ResourceSize"
    /\ call.size = 65535
    /\ call.out = Returned(65536)

\* C9: HSVtoRBG returns alpha exactly 1 for all inputs, and for hue,
\* saturation and value in [0,1] each of R, G and B lies in [0,1].
C9_ColorInRange ==
    (call.fn = "HSVtoRBG" /\ call.out # Pending) =>
        /\ call.out.value.w = Fl(1)
        /\ (InUnit(call.hue) /\ InUnit(call.saturation) /\ InUnit(call.value)) =>
                (InUnit(call.out.value.x) /\ InUnit(call.out.value.y) /\ InUnit(call.out.value.z))

\* C9's case: in-range inputs whose hue terms are clamped on both sides and
\* whose outputs are not all 0 or 1.
C9_Witness ==
    /\ call.fn = "HSVtoRBG" /\ call.out # Pending
    /\ call.hue = Dy(1, 3) /\ call.saturation = Dy(1, 1) /\ call.value = Dy(3, 2)
    /\ FLess(Fl(1), HueTerms(call.hue).x)
    /\ FLess(HueTerms(call.hue).z, Fl(0))
    /\ call.out.value = XMFLOAT4(Dy(3, 2), Dy(21, 5), Dy(3, 3), Fl(1))

-----------------------------------------------------------------------------
(* Claims about the bounding box, under SpecBBox *)

Axes == {"x", "y", "z"}

\* The least and the greatest of a set of floats, by value.
Least(S) == CHOOSE m \in S : \A f \in S : ~FLess(f, m)

Greatest(S) == CHOOSE m \in S : \A f \in S : ~FLess(m, f)

\* The orders in which n boxes can be taken.
Orders(n) == {p \in [1 .. n -> 1 .. n] : \A i, j \in 1 .. n : p[i] = p[j] => i = j}

\* The accumulator after merging the boxes of others into acc, first to last.
RECURSIVE FoldAdjust(_, _)
FoldAdjust(acc, others) ==
    IF others = <<>> THEN acc
    ELSE FoldAdjust(AdjustBBox(acc, Head(others)), Tail(others))

\* b.CenterTranslation is -(Min + Max) / 2 on every axis, stated without a
\* division: twice the translation plus Min plus Max is zero.
IsCentered(b) ==
    \A ax \in Axes :
        FAdd(FAdd(b.CenterTranslation[ax], b.CenterTranslation[ax]),
             FAdd(b.Min[ax], b.Max[ax])) = Fl(0)

\* C3: folding AdjustBBox over boxes is order-independent: the accumulator's
\* Min (Max) is on each axis the least (greatest) of its initial value and
\* the merged boxes' values on that axis, and merging three boxes A, B, C in
\* any of the six orders from the same accumulator gives the same Min and Max.
C3_FoldOrderIndependent ==
    /\ \A ax \in Axes :
            /\ bbox.Min[ax] =
                    Least({bbox0.Min[ax]} \cup {merged[i].Min[ax] : i \in 1 .. Len(merged)})
            /\ bbox.Max[ax] =
                    Greatest({bbox0.Max[ax]} \cup {merged[i].Max[ax] : i \in 1 .. Len(merged)})
    /\ Len(merged) = 3 =>
            \A p \in Orders(3) :
                LET folded == FoldAdjust(bbox0, [i \in 1 .. 3 |-> merged[p[i]]]) IN
                folded.Min = bbox.Min /\ folded.Max = bbox.Max

\* C3's case: three distinct boxes merged, the resulting Min and Max each
\* taking coordinates from more than one of them.
C3_Witness ==
    /\ Len(merged) = 3
    /\ Cardinality({merged[1], merged[2], merged[3], bbox0}) = 4
    /\ \A b \in {merged[1], merged[2], merged[3], bbox0} : b.Min # bbox.Min /\ b.Max # bbox.Max

\* C4 as stated: AdjustBBox leaves CenterTranslation and other unchanged, and
\* after a CenterBBox followed by AdjustBBox calls that changed Min or Max,
\* CenterTranslation holds the old value and no longer equals -(Min + Max) / 2.
C4_StaleAfterEveryChange ==
    /\ lastOp \in {"AdjustBBox", "AdjustBBoxSelf"} =>
            /\ bbox.CenterTranslation = bboxPrev.CenterTranslation
            /\ lastOther.after = lastOther.before
    /\ centered.state = "changed" =>
            /\ bbox.CenterTranslation = centered.at.CenterTranslation
            /\ ~IsCentered(bbox)

\* C4, amended: AdjustBBox leaves CenterTranslation and other unchanged, and
\* after a CenterBBox followed by AdjustBBox calls that changed Min or Max,
\* CenterTranslation holds the old value; it no longer equals
\* -(Min + Max) / 2 exactly when Min + Max has changed on some axis.
C4_StaleUnlessSumKept ==
    /\ lastOp \in {"AdjustBBox", "AdjustBBoxSelf"} =>
            /\ bbox.CenterTranslation = bboxPrev.CenterTranslation
            /\ lastOther.after = lastOther.before
    /\ centered.state = "changed" =>
            /\ bbox.CenterTranslation = centered.at.CenterTranslation
            /\ IsCentered(bbox) <=>
                    \A ax \in Axes :
                        FAdd(bbox.Min[ax], bbox.Max[ax])
                            = FAdd(centered.at.Min[ax], centered.at.Max[ax])

\* C4's case: an AdjustBBox after a CenterBBox has changed Min and Max, and
\* the translation, not touched, is stale.
C4_Witness ==
    /\ lastOp = "AdjustBBox"
    /\ centered.state = "changed"
    /\ bbox.Min # bboxPrev.Min /\ bbox.Max # bboxPrev.Max
    /\ bbox.CenterTranslation = bboxPrev.CenterTranslation
    /\ ~IsCentered(bbox)

\* C5: CenterBBox sets CenterTranslation to -(Min + Max) / 2 on every axis,
\* overwriting what was there, and leaves Min and Max unchanged; so whenever
\* the last call is CenterBBox the translation is that of the current Min and
\* Max (Min = (-1,-2,-3), Max = (3,4,5) gives (-1,-1,-1)).
C5_CenterBBoxCenters ==
    lastOp = "CenterBBox" =>
        /\ IsCentered(bbox)
        /\ bbox.Min = bboxPrev.Min /\ bbox.Max = bboxPrev.Max
        /\ (bbox.Min = XMFLOAT3(Fl(0 - 1), Fl(0 - 2), Fl(0 - 3))
                /\ bbox.Max = XMFLOAT3(Fl(3), Fl(4), Fl(5)))
            => bbox.CenterTranslation = XMFLOAT3(Fl(0 - 1), Fl(0 - 1), Fl(0 - 1))

\* C5's case: CenterBBox run on the box of the example, over a translation
\* left stale by a merge after an earlier CenterBBox.
C5_Witness ==
    /\ lastOp = "CenterBBox"
    /\ merged # <<>>
    /\ bboxPrev.CenterTranslation # XMFLOAT3(Fl(0), Fl(0), Fl(0))
    /\ bboxPrev.CenterTranslation # bbox.CenterTranslation
    /\ bbox.Min = XMFLOAT3(Fl(0 - 1), Fl(0 - 2), Fl(0 - 3))
    /\ bbox.Max = XMFLOAT3(Fl(3), Fl(4), Fl(5))
    /\ bbox.CenterTranslation = XMFLOAT3(Fl(0 - 1), Fl(0 - 1), Fl(0 - 1))

-----------------------------------------------------------------------------
(* Claims about com_exception and ThrowIfFailed, under SpecErr *)

\* The value of an upper-case hexadecimal digit; 16 for any other character.
HexValue(c) ==
    IF \E v \in 0 .. 15 : UpperHexDigits[v + 1] = c
    THEN CHOOSE v \in 0 .. 15 : UpperHexDigits[v + 1] = c
    ELSE 16

RECURSIVE HexSum(_, _)
HexSum(digits, k) ==
    IF k > Len(digits) THEN 0
    ELSE HexValue(digits[k]) * (16 ^ (Len(digits) - k)) + HexSum(digits, k + 1)

\* The signed 32-bit value whose two's complement pattern eight hexadecimal
\* digits spell.
ParseHex32(digits) ==
    (IF HexValue(digits[1]) >= 8 THEN HexValue(digits[1]) - 16 ELSE HexValue(digits[1]))
            * (16 ^ 7)
        + HexSum(Tail(digits), 1)

\* text is "Failure with HRESULT of " followed by exactly eight upper-case
\* hexadecimal digits that spell code.
IsMessageOf(text, code) ==
    /\ Len(text) = 32
    /\ SubSeq(text, 1, 24) = <<"F", "a", "i", "l", "u", "r", "e", " ", "w", "i", "t", "h", " ", "H", "R", "E", "S", "U", "L", "T", " ", "o", "f", " ">>
    /\ \A i \in 25 .. 32 : HexValue(text[i]) < 16
    /\ ParseHex32(SubSeq(text, 25, 32)) = code

\* C6: ThrowIfFailed(code) throws a com_exception iff code is negative as a
\* signed 32-bit value; the thrown object carries exactly that code, and its
\* message is "Failure with HRESULT of " followed by the code as exactly 8
\* zero-padded upper-case hexadecimal digits; for a success status the call
\* does nothing and throws nothing.
C6_ThrowIfFailed ==
    /\ lastThrow.out # Pending =>
            /\ lastThrow.out.threw <=> lastThrow.hr < 0
            /\ lastThrow.out.threw =>
                    /\ lastThrow.out.what.result = lastThrow.hr
                    /\ Len(excs) = lastThrow.alive + 1
                    /\ excs[Len(excs)] = lastThrow.out.what
            /\ ~lastThrow.out.threw =>
                    /\ lastThrow.out = Returned("void")
                    /\ Len(excs) = lastThrow.alive
    /\ \A obj \in 1 .. Len(excs) :
            obtained[obj].formatted > 0 => IsMessageOf(obtained[obj].text, excs[obj].result)

\* C6's case: ThrowIfFailed(E_FAIL) has thrown and what() on the object it
\* threw has returned "Failure with HRESULT of 80004005".
C6_Witness ==
    /\ lastThrow.hr = E_FAIL
    /\ lastThrow.out = Thrown(com_exception(E_FAIL))
    /\ obtained[Len(excs)].text = <<"F", "a", "i", "l", "u", "r", "e", " ", "w", "i", "t", "h", " ", "H", "R", "E", "S", "U", "L", "T", " ", "o", "f", " ", "8", "0", "0", "0", "4", "0", "0", "5">>

\* C7: the message of an error object is formatted once and cached: after
\* what() has been called on an object, no later what() call on this or on
\* another object formats it again, and the text obtained from it is unchanged.
C7_FormattedOnceAndCached ==
    \A obj \in 1 .. Len(excs) :
        obtained[obj].formatted > 0 =>
            /\ obtained[obj].formatted = 1
            /\ CString(mem[obtained[obj].ptr]) = obtained[obj].text

-----------------------------------------------------------------------------
(* Claim about what() under two threads, under SpecRace *)

\* C10: the formatting buffer is one static buffer shared by all error
\* objects, so formatting is not thread-safe: every what() call formats into
\* and returns s_str, and what a thread reads from the pointer it was
\* returned is, character by character, the text of its own object or of the
\* other thread's, not necessarily its own.
C10_SharedStaticBuffer ==
    \A t \in Threads :
        /\ thr[t].buf \in {"null", "s_str"}
        /\ thr[t].ptr \in {"null", "s_str"}
        /\ thr[t].pc = "done" =>
                /\ Len(thr[t].text) = 32
                /\ \A i \in 1 .. 32 :
                        thr[t].text[i] \in {FormatMessage(thr[t].exc.result)[i],
                                            FormatMessage(thr[Other(t)].exc.result)[i]}

\* C10's case: a thread has read, from the pointer its own what() returned, a
\* text that is neither its own object's message nor the other's: a mix.
C10_Witness ==
    \E t \in Threads :
        /\ thr[t].pc = "done"
        /\ thr[t].ptr = "s_str"
        /\ thr[t].text # FormatMessage(thr[t].exc.result)
        /\ thr[t].text # FormatMessage(thr[Other(t)].exc.result)

-----------------------------------------------------------------------------
(* Claim about CompileShader, under SpecComp *)

\* The lines the call in progress has written to the logger.
WrittenByThisCall == SelectSeq(log, LAMBDA e : e.call = ncompiles)

\* C8: whenever the compiler produced an error blob its text is written to
\* the logger exactly once, before the status is examined, on success and on
\* failure alike; on a failing status the write precedes the throw and no
\* bytecode is returned; on success the bytecode is returned, nothing thrown.
C8_LogBeforeStatus ==
    /\ comp.pc = "idle" => log = <<>>
    /\ comp.pc = "errors" => WrittenByThisCall = <<>> /\ comp.out = Pending
    /\ comp.pc \in {"ThrowIfFailed", "return", "raised", "returned"} =>
            WrittenByThisCall =
                IF comp.errors # "nullptr"
                THEN <<[call |-> ncompiles, line |-> comp.errors]>>
                ELSE <<>>
    /\ comp.pc \in {"ThrowIfFailed", "return"} => comp.out = Pending
    /\ comp.pc = "return" => ~FAILED(comp.hr)
    /\ comp.pc = "raised" =>
            /\ FAILED(comp.hr)
            /\ comp.out = Thrown(com_exception(comp.hr))
            /\ "value" \notin DOMAIN comp.out
    /\ comp.pc = "returned" =>
            /\ ~FAILED(comp.hr)
            /\ comp.out = Returned(comp.byteCode)

\* C8's case: a failing compile with an error blob has thrown, its text in
\* the log once.
C8_Witness ==
    /\ comp.pc = "raised"
    /\ comp.hr = E_FAIL
    /\ comp.errors = "error X3000"
    /\ WrittenByThisCall = <<[call |-> ncompiles, line |-> "error X3000"]>>

=============================================================================
